---- MODULE Spec2Model ----
(***************************************************************************)
(* BlueprintX-AI: the 3D reconstruction core (Viewer3D.tsx) and the App    *)
(* component that feeds it plan data and the highlighted room.             *)
(*                                                                         *)
(* Numbers.  A JavaScript value that the code treats as a number is a      *)
(* record [t, n, d]: t = "num" is the exact rational n/d (d > 0, lowest    *)
(* terms), t = "NaN" is NaN, t = "undefined" a missing field, t = "string" *)
(* a non-empty non-numeric string.  Arithmetic is exact (floating-point    *)
(* rounding is not modelled).  A distance is a square root, so the model   *)
(* keeps its square and compares distances through their squares.          *)
(***************************************************************************)
EXTENDS Integers, Sequences, FiniteSets, TLC

VARIABLES step, imageUrl, analysisData, highlightedRoomId, errorMsg,
          pending, scene, memo, renderGen, clickedRoom,
          isSpeaking, isGeneratingVoice, audioSourceRef, audioSources,
          speechRequests

(* the state of App and of the viewers *)
appVars == <<step, imageUrl, analysisData, highlightedRoomId, errorMsg,
             pending, scene, memo, renderGen, clickedRoom>>

(* the state of the voice assistant of AnalysisPanel *)
voiceVars == <<isSpeaking, isGeneratingVoice, audioSourceRef, audioSources,
               speechRequests>>

vars == <<appVars, voiceVars>>

----------------------------------------------------------------------------
(* Exact rational arithmetic for JavaScript numbers *)

Abs(i) == IF i < 0 THEN -i ELSE i

RECURSIVE GCD(_, _)
GCD(a, b) == IF b = 0 THEN a ELSE GCD(b, a % b)

Q(n, d) ==
    LET s == IF d < 0 THEN -1 ELSE 1
        g == GCD(Abs(n), Abs(d))
    IN  [t |-> "num", n |-> (s * n) \div g, d |-> (s * d) \div g]

QAdd(a, b) ==
    LET g == GCD(a.d, b.d)
    IN  Q(a.n * (b.d \div g) + b.n * (a.d \div g), (a.d \div g) * b.d)

QNeg(a) == [t |-> "num", n |-> -a.n, d |-> a.d]

QSub(a, b) == QAdd(a, QNeg(b))

QMul(a, b) ==
    LET g1 == GCD(Abs(a.n), b.d)
        g2 == GCD(Abs(b.n), a.d)
    IN  Q((a.n \div g1) * (b.n \div g2), (a.d \div g2) * (b.d \div g1))

QDiv(a, b) == QMul(a, Q(b.d, b.n))

QLt(a, b) ==
    LET g == GCD(a.d, b.d)
    IN  a.n * (b.d \div g) < b.n * (a.d \div g)

QLe(a, b) == ~QLt(b, a)

QMin(a, b) == IF QLt(b, a) THEN b ELSE a

QMax(a, b) == IF QLt(a, b) THEN b ELSE a

QSq(a) == QMul(a, a)

Zero == Q(0, 1)

(* sqrt(a) < sqrt(b) - q, for a, b >= 0 and q >= 0, decided exactly:       *)
(* sqrt(a) + q < sqrt(b)  iff  2q sqrt(a) < b - a - q^2                     *)
(*                        iff  b - a - q^2 > 0 and 4 q^2 a < (b - a - q^2)^2 *)
SqrtLtSqrtMinus(a, b, q) ==
    LET Test(r) == /\ QLt(Zero, r)
                   /\ QLt(QMul(Q(4, 1), QMul(QSq(q), a)), QSq(r))
    IN  Test(QSub(QSub(b, a), QSq(q)))

----------------------------------------------------------------------------
(* JavaScript values *)

Undefined == [t |-> "undefined", n |-> 0, d |-> 1]

NaN == [t |-> "NaN", n |-> 0, d |-> 1]

Str == [t |-> "string", n |-> 0, d |-> 1]

(* typeof v === 'number' : NaN is a number *)
TypeofNumber(v) == v.t \in {"num", "NaN"}

(* isNaN(v) : true of NaN, undefined and a non-numeric string *)
IsNaN(v) == v.t # "num"

(* truthiness of v in  v ? a : b  and  v || b *)
Truthy(v) == \/ v.t = "num" /\ v.n # 0
             \/ v.t = "string"

(* a Point2D; def = FALSE is a missing (undefined) point *)
Pt(x, y) == [def |-> TRUE, x |-> x, y |-> y]

NoPoint == [def |-> FALSE, x |-> Undefined, y |-> Undefined]

(* P(10, 20) is the point {x: 10, y: 20} *)
P(x, y) == Pt(Q(x, 1), Q(y, 1))

----------------------------------------------------------------------------
(* Helper functions of Viewer3D.tsx *)

(* mapCoord without its isNaN test *)
mapCoordNoNaNTest(val) ==
    IF ~TypeofNumber(val) THEN Zero
    ELSE QDiv(QSub(val, Q(50, 1)), Q(2, 1))

(* Map 0-100 (2D grid) to -25..25 (3D world) *)
mapCoord(val) ==
    IF ~TypeofNumber(val) \/ IsNaN(val) THEN Zero
    ELSE QDiv(QSub(val, Q(50, 1)), Q(2, 1))

(* new THREE.Vector3(x, 0, z) *)
Vector3(x, z) == [x |-> x, z |-> z]

(* a.distanceToSquared(b) *)
distanceToSquared(a, b) == QAdd(QSq(QSub(a.x, b.x)), QSq(QSub(a.z, b.z)))

(* THREE.Line3(start, end).closestPointToPoint(point, clampToLine, target) *)
closestPointToPoint(start, end, point, clampToLine) ==
    LET startEnd2      == distanceToSquared(start, end)
        startEnd_startP == QAdd(QMul(QSub(end.x, start.x), QSub(point.x, start.x)),
                                QMul(QSub(end.z, start.z), QSub(point.z, start.z)))
        clamp(t0) == IF clampToLine THEN QMax(Zero, QMin(Q(1, 1), t0)) ELSE t0
        at(t) == Vector3(QAdd(start.x, QMul(t, QSub(end.x, start.x))),
                         QAdd(start.z, QMul(t, QSub(end.z, start.z))))
    IN  at(clamp(QDiv(startEnd_startP, startEnd2)))

----------------------------------------------------------------------------
(* 1. WALL SEGMENT *)

RECURSIVE SetToSortedSeq(_)
SetToSortedSeq(S) ==
    IF S = {} THEN <<>>
    ELSE LET m == CHOOSE x \in S : \A y \in S : x <= y
         IN  <<m>> \o SetToSortedSeq(S \ {m})

(* the early return of WallSegment: a missing or non-number endpoint *)
WallGuard(wall) ==
    /\ wall.start.def /\ wall.end.def
    /\ TypeofNumber(wall.start.x) /\ TypeofNumber(wall.start.y)
    /\ TypeofNumber(wall.end.x) /\ TypeofNumber(wall.end.y)

WallStart(wall) == Vector3(mapCoord(wall.start.x), mapCoord(wall.start.y))

WallEnd(wall) == Vector3(mapCoord(wall.end.x), mapCoord(wall.end.y))

(* the degenerate test taken on the distance instead of its square *)
WallDegenerateUnsquared(wall) ==
    QLt(distanceToSquared(WallStart(wall), WallEnd(wall)), QSq(Q(1, 100)))

(* start.distanceToSquared(end) < 0.01 *)
WallDegenerate(wall) ==
    QLt(distanceToSquared(WallStart(wall), WallEnd(wall)), Q(1, 100))

(* wall.thickness ? Math.min(Math.max(wall.thickness / 5, 0.3), 1.0) : 0.5 *)
wallThickness(wall) ==
    IF Truthy(wall.thickness)
    THEN IF wall.thickness.t = "string" THEN NaN
         ELSE QMin(QMax(QDiv(wall.thickness, Q(5, 1)), Q(3, 10)), Q(1, 1))
    ELSE Q(1, 2)

(* doorPos of the filter callback *)
DoorPos(door) == Vector3(mapCoord(door.position.x), mapCoord(door.position.y))

(* the filter callback rejecting a door at distance 1.0 (>= for >) *)
IsRelevantDoorStrict(start, end, lengthSq, door) ==
    LET inside(distFromStartSq) ==
            /\ QLt(Q(1, 4), distFromStartSq)
            /\ SqrtLtSqrtMinus(distFromStartSq, lengthSq, Q(1, 2))
        test(doorPos, closest) ==
            IF QLe(Q(1, 1), distanceToSquared(closest, doorPos)) THEN FALSE
            ELSE inside(distanceToSquared(closest, start))
        filter(doorPos) ==
            test(doorPos, closestPointToPoint(start, end, doorPos, TRUE))
    IN  filter(DoorPos(door))

(* the filter callback without its distance-to-line test *)
IsRelevantDoorNoDist(start, end, lengthSq, door) ==
    LET inside(distFromStartSq) ==
            /\ QLt(Q(1, 4), distFromStartSq)
            /\ SqrtLtSqrtMinus(distFromStartSq, lengthSq, Q(1, 2))
        test(doorPos, closest) == inside(distanceToSquared(closest, start))
        filter(doorPos) ==
            test(doorPos, closestPointToPoint(start, end, doorPos, TRUE))
    IN  filter(DoorPos(door))

(* the filter callback of relevantDoors: is the door on this wall segment *)
IsRelevantDoor(start, end, lengthSq, door) ==
    LET inside(distFromStartSq) ==
            /\ QLt(Q(1, 4), distFromStartSq)              \* distFromStart > 0.5
            /\ SqrtLtSqrtMinus(distFromStartSq, lengthSq, Q(1, 2))
        test(doorPos, closest) ==                         \* distToLine > 1.0
            IF QLt(Q(1, 1), distanceToSquared(closest, doorPos)) THEN FALSE
            ELSE inside(distanceToSquared(closest, start))
        filter(doorPos) ==
            test(doorPos, closestPointToPoint(start, end, doorPos, TRUE))
    IN  filter(DoorPos(door))

(* relevantDoors: the doors that pass the filter, in list order, each with *)
(* distFromStart = start.distanceTo(doorPos) added by the map callback     *)
relevantDoors(wall, doors) ==
    LET filtered(start, end) ==
            SetToSortedSeq({i \in 1..Len(doors) :
                IsRelevantDoor(start, end, distanceToSquared(start, end), doors[i])})
        mapped(start, kept) ==
            [k \in 1..Len(kept) |->
                [door |-> kept[k],
                 width |-> doors[kept[k]].width,
                 distFromStartSq |->
                     distanceToSquared(start, DoorPos(doors[kept[k]]))]]
    IN  mapped(WallStart(wall), filtered(WallStart(wall), WallEnd(wall)))

(* (door.width || 6) * 0.5 *)
DoorWidth(width) ==
    IF Truthy(width)
    THEN IF width.t = "string" THEN NaN ELSE QMul(width, Q(1, 2))
    ELSE QMul(Q(6, 1), Q(1, 2))

(* the holes with a hole dropped when an earlier door was accepted *)
shapeHolesFirstOnly(rel) ==
    [k \in 1..(IF Len(rel) = 0 THEN 0 ELSE 1) |->
        [door |-> rel[k].door,
         distFromStartSq |-> rel[k].distFromStartSq,
         doorW |-> DoorWidth(rel[k].width),
         doorH |-> Q(22, 10)]]

(* shape: the holes pushed on the wall profile, one per relevant door; a   *)
(* hole spans [distFromStart - doorW/2, distFromStart + doorW/2] x [0, doorH] *)
shapeHoles(rel) ==
    [k \in 1..Len(rel) |->
        [door |-> rel[k].door,
         distFromStartSq |-> rel[k].distFromStartSq,
         doorW |-> DoorWidth(rel[k].width),
         doorH |-> Q(22, 10)]]

NullWall ==
    [built |-> FALSE, start |-> Vector3(Zero, Zero), end |-> Vector3(Zero, Zero),
     lengthSq |-> Zero, height |-> Zero, thickness |-> Zero,
     doorPos |-> <<>>, holes |-> <<>>]

(* the door.position.x read of the filter callback throws a TypeError when *)
(* a door has no position; it is reached once the wall passed its guards   *)
WallSegmentThrows(wall, doors) ==
    /\ WallGuard(wall)
    /\ ~WallDegenerate(wall)
    /\ \E i \in 1..Len(doors) : ~doors[i].position.def

(* the wall solid WallSegment returns (NullWall when it returns null) *)
WallSegment(wall, doors) ==
    IF ~WallGuard(wall) THEN NullWall
    ELSE IF WallDegenerate(wall) THEN NullWall
    ELSE [built |-> TRUE,
          start |-> WallStart(wall),
          end |-> WallEnd(wall),
          lengthSq |-> distanceToSquared(WallStart(wall), WallEnd(wall)),
          height |-> Q(3, 1),
          thickness |-> wallThickness(wall),
          doorPos |-> [i \in 1..Len(doors) |-> DoorPos(doors[i])],
          holes |-> shapeHoles(relevantDoors(wall, doors))]

----------------------------------------------------------------------------
(* 2. DOOR MESH *)

NullDoor ==
    [built |-> FALSE, position |-> Vector3(Zero, Zero), openingWidth |-> Zero,
     height |-> Zero, rotationDeg |-> Zero]

(* the door assembly with a guard on the truthiness of the coordinates     *)
(* (!door.position.x), which also rejects 0 and NaN                        *)
DoorMeshTruthyGuard(door) ==
    IF \/ ~door.position.def
       \/ ~Truthy(door.position.x) \/ ~Truthy(door.position.y)
    THEN NullDoor
    ELSE [built |-> TRUE,
          position |-> Vector3(mapCoord(door.position.x), mapCoord(door.position.y)),
          openingWidth |-> DoorWidth(door.width),
          height |-> Q(22, 10),
          rotationDeg |-> IF Truthy(door.rotation) THEN door.rotation ELSE Zero]

(* the door assembly; rotationDeg is door.rotation || 0, the group is      *)
(* rotated by -rotationDeg * pi / 180 about the vertical axis              *)
DoorMesh(door) ==
    IF \/ ~door.position.def
       \/ ~TypeofNumber(door.position.x) \/ ~TypeofNumber(door.position.y)
    THEN NullDoor
    ELSE [built |-> TRUE,
          position |-> Vector3(mapCoord(door.position.x), mapCoord(door.position.y)),
          openingWidth |-> DoorWidth(door.width),
          height |-> Q(22, 10),
          rotationDeg |-> IF Truthy(door.rotation) THEN door.rotation ELSE Zero]

----------------------------------------------------------------------------
(* 3. ROOM FLOOR *)

(* the filter without its isNaN tests *)
validPointsNoNaNTest(polygon) ==
    SelectSeq(polygon, LAMBDA p : /\ p.def
                                  /\ TypeofNumber(p.x)
                                  /\ TypeofNumber(p.y))

(* room.polygon?.filter(p => p && typeof p.x === 'number' && !isNaN(p.x) ...) || [] *)
validPoints(polygon) ==
    SelectSeq(polygon, LAMBDA p : /\ p.def
                                  /\ TypeofNumber(p.x) /\ ~IsNaN(p.x)
                                  /\ TypeofNumber(p.y) /\ ~IsNaN(p.y))

NullRoom ==
    [built |-> FALSE, id |-> "undefined", outline |-> <<>>,
     label |-> Vector3(Zero, Zero), isHighlighted |-> FALSE]

(* the floor slab and label; the outline is drawn at (mapCoord(x), -mapCoord(y)) *)
RoomFloor(room, isHighlighted) ==
    LET pts == validPoints(room.polygon)
    IN  IF Len(pts) < 3 THEN NullRoom
        ELSE IF \/ ~room.center.def
                \/ ~TypeofNumber(room.center.x) \/ ~TypeofNumber(room.center.y)
        THEN NullRoom
        ELSE [built |-> TRUE,
              id |-> room.id,
              outline |-> [i \in 1..Len(pts) |->
                             Vector3(mapCoord(pts[i].x), QNeg(mapCoord(pts[i].y)))],
              label |-> Vector3(mapCoord(room.center.x), mapCoord(room.center.y)),
              isHighlighted |-> isHighlighted]

----------------------------------------------------------------------------
(* Viewer2D *)

(* the room overlay of Viewer2D is drawn (and clickable) when the room has *)
(* a polygon, a center, and a point with number coordinates                *)
Overlay2D(room) ==
    /\ Len(room.polygon) # 0
    /\ room.center.def
    /\ \E i \in 1..Len(room.polygon) :
          /\ room.polygon[i].def
          /\ TypeofNumber(room.polygon[i].x) /\ TypeofNumber(room.polygon[i].y)

(* the overlays with isHighlighted taken from a comparison with room.name, *)
(* which no id equals                                                      *)
Viewer2DByName(data, highlighted) ==
    [i \in 1..Len(data.rooms) |->
        [drawn |-> Overlay2D(data.rooms[i]), isHighlighted |-> FALSE]]

(* the room overlays of Viewer2D, one per room: drawn or not, and filled   *)
(* when highlightedRoomId === room.id                                      *)
Viewer2D(data, highlighted) ==
    [i \in 1..Len(data.rooms) |->
        [drawn |-> Overlay2D(data.rooms[i]),
         isHighlighted |-> highlighted = data.rooms[i].id]]

----------------------------------------------------------------------------
(* Scene *)

(* a render of SceneContent throws when one of its WallSegments does *)
SceneThrows(data) ==
    \E i \in 1..Len(data.walls) : WallSegmentThrows(data.walls[i], data.doors)

(* the scene with isHighlighted={!!highlightedRoomId}: every room is       *)
(* highlighted while some id is selected                                   *)
SceneContentAnySelected(data, highlighted) ==
    [walls |-> [i \in 1..Len(data.walls) |-> WallSegment(data.walls[i], data.doors)],
     doors |-> [i \in 1..Len(data.doors) |-> DoorMesh(data.doors[i])],
     rooms |-> [i \in 1..Len(data.rooms) |->
                  RoomFloor(data.rooms[i], highlighted # "null")]]

(* the scene SceneContent returns: one element per wall, door and room *)
SceneContent(data, highlighted) ==
    [walls |-> [i \in 1..Len(data.walls) |-> WallSegment(data.walls[i], data.doors)],
     doors |-> [i \in 1..Len(data.doors) |-> DoorMesh(data.doors[i])],
     rooms |-> [i \in 1..Len(data.rooms) |->
                  RoomFloor(data.rooms[i], highlighted = data.rooms[i].id)]]

----------------------------------------------------------------------------
(* Plan data *)

Wall(id, start, end, thickness) ==
    [id |-> id, start |-> start, end |-> end, thickness |-> thickness]

(* a Door of the plan has no distFromStart property *)
Door(id, position, width, rotation) ==
    [id |-> id, position |-> position, width |-> width, rotation |-> rotation,
     distFromStart |-> Undefined]

Room(id, polygon, center) == [id |-> id, polygon |-> polygon, center |-> center]

Plan(walls, doors, rooms) ==
    [isNull |-> FALSE, walls |-> walls, doors |-> doors, rooms |-> rooms]

(* analysisData = null *)
NullData == [isNull |-> TRUE, walls |-> <<>>, doors |-> <<>>, rooms |-> <<>>]

(* P100 takes hundredths of a plan unit *)
P100(x, y) == Pt(Q(x, 100), Q(y, 100))

SAMPLE_DATA ==
    Plan(<<Wall("w1", P(10, 10), P(90, 10), Q(2, 1)),
           Wall("w2", P(90, 10), P(90, 70), Q(2, 1)),
           Wall("w3", P(90, 70), P(10, 70), Q(2, 1)),
           Wall("w4", P(10, 70), P(10, 10), Q(2, 1)),
           Wall("w5", P(50, 10), P(50, 70), Q(1, 1)),
           Wall("w6", P(50, 40), P(90, 40), Q(1, 1))>>,
         <<Door("d1", P(50, 60), Q(8, 1), Zero),
           Door("d2", P(70, 40), Q(6, 1), Q(90, 1)),
           Door("d3", P(25, 70), Q(10, 1), Zero)>>,
         <<Room("r1", <<P(10, 10), P(50, 10), P(50, 70), P(10, 70)>>, P(30, 40)),
           Room("r2", <<P(50, 10), P(90, 10), P(90, 40), P(50, 40)>>, P(70, 25)),
           Room("r3", <<P(50, 40), P(90, 40), P(90, 70), P(50, 70)>>, P(70, 55))>>)

(* Walls an analysis response may hold.  w1 and w5 are the sample's; wp    *)
(* runs parallel to w1 one world unit away, with thickness 0; wd is a      *)
(* diagonal of world length 5 with thickness 10; wz is 0.15 plan units     *)
(* (0.075 world units) long; wn has a NaN coordinate and a NaN thickness,  *)
(* ws a string coordinate, wm no start point and no thickness.             *)
WallCatalogue ==
    <<Wall("w1", P(10, 10), P(90, 10), Q(2, 1)),
      Wall("wp", P(10, 12), P(90, 12), Zero),
      Wall("w5", P(50, 10), P(50, 70), Q(1, 1)),
      Wall("wd", P(10, 10), P(16, 18), Q(10, 1)),
      Wall("wz", P(50, 10), P100(5015, 1000), Q(2, 1)),
      Wall("wn", Pt(NaN, Zero), P(100, 0), NaN),
      Wall("ws", P(10, 70), Pt(Q(90, 1), Str), Q(2, 1)),
      Wall("wm", NoPoint, P(90, 10), Undefined)>>

(* Doors an analysis response may hold.  d1 is the sample's; dm lies       *)
(* between w1 and wp, 0.5 world units from each and 0.5 from the start of  *)
(* w5; d0 lies on w1 with width 0; dd lies exactly 1.0 world unit off wd;  *)
(* dn has a NaN coordinate and du an undefined one (mapCoord puts both on  *)
(* the line of w5); dx has no position.                                    *)
DoorCatalogue ==
    <<Door("d1", P(50, 60), Q(8, 1), Zero),
      Door("dm", P(50, 11), Q(6, 1), Q(90, 1)),
      Door("d0", P(25, 10), Zero, Undefined),
      Door("dd", P100(1140, 1520), Undefined, Q(45, 1)),
      Door("dn", Pt(Q(50, 1), NaN), NaN, NaN),
      Door("du", Pt(Undefined, Q(60, 1)), Q(6, 1), Zero),
      Door("dx", NoPoint, Q(6, 1), Zero)>>

(* Rooms an analysis response may hold: the sample's r1, a room whose      *)
(* center has a NaN coordinate, a room with two valid polygon points; a    *)
(* second room with the id r1, whose polygon has three valid points among  *)
(* invalid ones; a room without an id (room.id is undefined); a room       *)
(* without a center and a room whose center has a string coordinate.       *)
RoomCatalogue ==
    <<Room("r1", <<P(10, 10), P(50, 10), P(50, 70), P(10, 70)>>, P(30, 40)),
      Room("r2", <<P(50, 10), P(90, 10), P(90, 40), P(50, 40)>>, Pt(NaN, Q(25, 1))),
      Room("r3", <<P(50, 40), Pt(NaN, Q(40, 1)), P(90, 70), NoPoint>>, P(70, 55)),
      Room("r1", <<P(50, 40), Pt(Str, Q(40, 1)), P(90, 40), NoPoint, P(90, 70),
                   Pt(Q(50, 1), Undefined)>>, P(70, 55)),
      Room("undefined", <<P(10, 70), P(50, 70), P(50, 90)>>, P(30, 80)),
      Room("r6", <<P(50, 10), P(90, 10), P(90, 40)>>, NoPoint),
      Room("r7", <<P(50, 10), P(90, 10), P(90, 40)>>, Pt(Str, Q(25, 1)))>>

(* the most walls, doors and rooms of a generated analysis response *)
MaxWalls == 2

MaxDoors == 2

MaxRooms == 1

(* the AudioBufferSourceNodes one AnalysisPanel creates *)
MaxSources == 4

(* the sub-sequences of cat with at most k elements *)
SubSeqs(cat, k) ==
    {[i \in 1..Cardinality(S) |-> cat[SetToSortedSeq(S)[i]]] :
        S \in {T \in SUBSET (1..Len(cat)) : Cardinality(T) <= k}}

(* The analysis responses of the application-level specification: every   *)
(* plan with at most one wall and one door and no room, every plan of at   *)
(* most MaxRooms rooms and nothing else, and some larger ones.  The        *)
(* last has three doors on w5: d1, 25 world units from its start with an   *)
(* opening 4 wide; dc, 2 from its start with an opening 5 wide; dv, 23     *)
(* from its start with an opening 3 wide.  NullData is the value of        *)
(* JSON.parse for the response text "null".                                *)
AppResponses ==
    {Plan(ws, ds, <<>>) : ws \in SubSeqs(WallCatalogue, 1),
                          ds \in SubSeqs(DoorCatalogue, 1)}
    \cup
    {Plan(<<>>, <<>>, rs) : rs \in SubSeqs(RoomCatalogue, MaxRooms)}
    \cup
    {Plan(<<WallCatalogue[1], WallCatalogue[2]>>, <<DoorCatalogue[2]>>,
          <<RoomCatalogue[1], RoomCatalogue[2]>>),
     Plan(<<WallCatalogue[3], WallCatalogue[8]>>, <<DoorCatalogue[5], DoorCatalogue[6]>>,
          <<RoomCatalogue[1], RoomCatalogue[2], RoomCatalogue[3]>>),
     Plan(<<WallCatalogue[1], WallCatalogue[3], WallCatalogue[4]>>,
          <<DoorCatalogue[1], DoorCatalogue[3]>>, <<RoomCatalogue[3], RoomCatalogue[1]>>),
     Plan(<<>>, <<>>,
          <<RoomCatalogue[1], RoomCatalogue[4], RoomCatalogue[5], RoomCatalogue[6]>>),
     Plan(<<WallCatalogue[3]>>,
          <<DoorCatalogue[1], Door("dc", P(50, 14), Q(10, 1), Zero),
            Door("dv", P(50, 56), Q(6, 1), Zero)>>, <<>>),
     NullData}

(* the analysis responses the reconstruction is checked on: every plan of  *)
(* at most MaxWalls walls and MaxDoors doors, and the responses above      *)
PlanInputs ==
    {Plan(ws, ds, <<>>) : ws \in SubSeqs(WallCatalogue, MaxWalls),
                          ds \in SubSeqs(DoorCatalogue, MaxDoors)}
    \cup AppResponses

----------------------------------------------------------------------------
(* Rendering Viewer3D: the committed scene and the useMemo caches *)

Unmounted ==
    [status |-> "unmounted", walls |-> <<>>, doors |-> <<>>, rooms |-> <<>>,
     overlays |-> <<>>]

(* a render that threw: without an error boundary React unmounts the tree *)
Threw ==
    [status |-> "threw", walls |-> <<>>, doors |-> <<>>, rooms |-> <<>>,
     overlays |-> <<>>]

(* the committed render of the dashboard: the scene of Viewer3D and the    *)
(* room overlays of Viewer2D                                               *)
Rendered(content, overlays) ==
    [status |-> "rendered", walls |-> content.walls, doors |-> content.doors,
     rooms |-> content.rooms, overlays |-> overlays]

(* The dependency list [doors, start, end, length] of relevantDoors as     *)
(* Object.is sees it in the render of generation g: doors is the array of  *)
(* the mounted analysisData, start and end are Vector3 objects made by     *)
(* this render (identified by g), length is a number.                      *)
MemoDeps(wall, g) ==
    [doors |-> "analysisData.doors", start |-> g, end |-> g,
     lengthSq |-> distanceToSquared(WallStart(wall), WallEnd(wall))]

NoMemo ==
    [active |-> FALSE,
     deps |-> [doors |-> "none", start |-> 0, end |-> 0, lengthSq |-> Zero],
     relevantDoorsId |-> 0, shapeId |-> 0]

(* the hooks of one WallSegment in the render of generation g: prev is its *)
(* hook state of the previous render (NoMemo on mount); relevantDoors is   *)
(* recomputed, giving a new array, when a dependency changed, and shape,   *)
(* whose dependencies are [length, height, relevantDoors], when that array *)
(* changed; the geometry is rebuilt when shape is a new object.            *)
WallHooks(wall, prev, g) ==
    IF ~WallGuard(wall) \/ WallDegenerate(wall) THEN NoMemo
    ELSE LET deps == MemoDeps(wall, g)
             relId == IF prev.active /\ prev.deps = deps
                      THEN prev.relevantDoorsId ELSE g
             shId == IF prev.active /\ prev.relevantDoorsId = relId
                     THEN prev.shapeId ELSE g
         IN  [active |-> TRUE, deps |-> deps, relevantDoorsId |-> relId,
              shapeId |-> shId]

(* the map callback writing distFromStart on the door it was given *)
MapCallbackInPlace(door, distFromStartSq) ==
    [mapped |-> [door EXCEPT !.distFromStart = distFromStartSq],
     door |-> [door EXCEPT !.distFromStart = distFromStartSq]]

(* the map callback of relevantDoors, door => ({...door, distFromStart}):  *)
(* mapped is the object it returns, a copy of the door with the square of  *)
(* distFromStart added; door is the door of the plan after the call        *)
MapCallback(door, distFromStartSq) ==
    [mapped |-> [door EXCEPT !.distFromStart = distFromStartSq],
     door |-> door]

(* the plan data after the render that gave content: each door as the map  *)
(* callbacks of the walls that accepted it left it, the last wall last     *)
PlanAfterRender(data, content) ==
    [data EXCEPT !.doors =
        [j \in 1..Len(data.doors) |->
            LET accepting == {i \in 1..Len(content.walls) :
                                \E k \in DOMAIN content.walls[i].holes :
                                    content.walls[i].holes[k].door = j}
                last == CHOOSE i \in accepting : \A h \in accepting : h <= i
                hole == CHOOSE k \in DOMAIN content.walls[last].holes :
                            content.walls[last].holes[k].door = j
            IN  IF accepting = {} THEN data.doors[j]
                ELSE MapCallback(data.doors[j],
                         content.walls[last].holes[hole].distFromStartSq).door]]

(* the render of the dashboard throws when AnalysisPanel reads             *)
(* data.material_cost_estimation of a null data, or SceneContent throws    *)
DashboardThrows(data) == data.isNull \/ SceneThrows(data)

(* mounting Viewer3D on entering the dashboard with setAnalysisData(data): *)
(* the first render                                                        *)
Mount(data, highlighted) ==
    /\ renderGen' = 1 - renderGen
    /\ IF DashboardThrows(data)
       THEN /\ scene' = Threw
            /\ memo' = <<>>
            /\ analysisData' = data
       ELSE LET commit(content) ==
                    /\ scene' = Rendered(content, Viewer2D(data, highlighted))
                    /\ analysisData' = PlanAfterRender(data, content)
            IN  /\ commit(SceneContent(data, highlighted))
                /\ memo' = [i \in 1..Len(data.walls) |->
                              WallHooks(data.walls[i], NoMemo, 1 - renderGen)]

(* setHighlightedRoomId(id) while the dashboard is shown: React bails out  *)
(* when the state is unchanged, otherwise App and the viewers render again *)
SetHighlighted(id) ==
    /\ highlightedRoomId' = id
    /\ IF id = highlightedRoomId
       THEN UNCHANGED <<scene, memo, renderGen, analysisData>>
       ELSE LET commit(content) ==
                    /\ scene' = Rendered(content, Viewer2D(analysisData, id))
                    /\ analysisData' = PlanAfterRender(analysisData, content)
            IN  /\ renderGen' = 1 - renderGen
                /\ commit(SceneContent(analysisData, id))
                /\ memo' = [i \in 1..Len(analysisData.walls) |->
                              WallHooks(analysisData.walls[i], memo[i], 1 - renderGen)]

Unmount ==
    /\ scene' = Unmounted
    /\ memo' = <<>>
    /\ UNCHANGED renderGen

----------------------------------------------------------------------------
(* App *)

(* AnalysisPanel as it mounts: useState(false) twice, useRef(null), and   *)
(* no AudioBufferSourceNode created yet                                    *)
VoiceInit ==
    /\ isSpeaking = FALSE
    /\ isGeneratingVoice = FALSE
    /\ audioSourceRef = 0
    /\ audioSources = [n \in 1..MaxSources |-> "none"]
    /\ speechRequests = 0

Init ==
    /\ step = "LANDING"
    /\ imageUrl = "null"
    /\ analysisData = NullData
    /\ highlightedRoomId = "null"
    /\ errorMsg = "null"
    /\ pending = "none"
    /\ scene = Unmounted
    /\ memo = <<>>
    /\ renderGen = 0
    /\ clickedRoom = "none"
    /\ VoiceInit

(* nothing runs after a render threw *)
Alive == scene.status # "threw"

(* LandingPage onStart *)
onStart ==
    /\ clickedRoom' = "none"
    /\ UNCHANGED voiceVars
    /\ step = "LANDING"
    /\ step' = "UPLOAD"
    /\ UNCHANGED <<imageUrl, analysisData, highlightedRoomId, errorMsg, pending,
                   scene, memo, renderGen>>

(* the Back to Home button of the upload screen *)
backToHome ==
    /\ clickedRoom' = "none"
    /\ UNCHANGED voiceVars
    /\ step = "UPLOAD"
    /\ step' = "LANDING"
    /\ UNCHANGED <<imageUrl, analysisData, highlightedRoomId, errorMsg, pending,
                   scene, memo, renderGen>>

(* handleSampleLoad without setStep('PROCESSING') *)
handleSampleLoadNoProcessing ==
    /\ clickedRoom' = "none"
    /\ UNCHANGED voiceVars
    /\ step = "UPLOAD"
    /\ errorMsg' = "null"
    /\ pending' = "sampleTimer"
    /\ UNCHANGED <<step, imageUrl, analysisData, highlightedRoomId, scene, memo,
                   renderGen>>

(* handleSampleLoad up to its setTimeout *)
handleSampleLoad ==
    /\ clickedRoom' = "none"
    /\ UNCHANGED voiceVars
    /\ step = "UPLOAD"
    /\ step' = "PROCESSING"
    /\ errorMsg' = "null"
    /\ pending' = "sampleTimer"
    /\ UNCHANGED <<imageUrl, analysisData, highlightedRoomId, scene, memo, renderGen>>

(* the timer callback of handleSampleLoad *)
sampleTimer ==
    /\ clickedRoom' = "none"
    /\ UNCHANGED voiceVars
    /\ pending = "sampleTimer"
    /\ pending' = "none"
    /\ imageUrl' = "null"
    /\ step' = "DASHBOARD"
    /\ Mount(SAMPLE_DATA, highlightedRoomId)
    /\ UNCHANGED <<highlightedRoomId, errorMsg>>

(* handleFileUpload up to its first await: a PDF or an image was chosen *)
handleFileUpload ==
    /\ clickedRoom' = "none"
    /\ UNCHANGED voiceVars
    /\ step = "UPLOAD"
    /\ step' = "PROCESSING"
    /\ errorMsg' = "null"
    /\ \E kind \in {"convertPdf", "readFile"} : pending' = kind
    /\ UNCHANGED <<imageUrl, analysisData, highlightedRoomId, scene, memo, renderGen>>

(* convertPdfToImage or the FileReader settles: with the data URL, and    *)
(* handleFileUpload runs on into analyzeBlueprint up to await              *)
(* compressImage, whose Image element will fire load or error; or with an  *)
(* error                                                                   *)
fileSettles ==
    /\ clickedRoom' = "none"
    /\ UNCHANGED voiceVars
    /\ pending \in {"convertPdf", "readFile"}
    /\ \/ /\ imageUrl' = "base64"
          /\ \E event \in {"img.onload", "img.onerror"} : pending' = event
          /\ UNCHANGED <<step, errorMsg>>
       \/ /\ errorMsg' = IF pending = "convertPdf"
                         THEN "Failed to convert PDF. Ensure it is a valid document."
                         ELSE "Error reading file."
          /\ step' = "UPLOAD"
          /\ pending' = "none"
          /\ UNCHANGED imageUrl
    /\ UNCHANGED <<analysisData, highlightedRoomId, scene, memo, renderGen>>

MAX_DIM == 800

(* the widths and heights of an uploaded image *)
ImageSizes == {400, 1600}

(* compressImage without img.onerror *)
compressImageNoOnError(event, width, height, hasContext) ==
    IF event = "img.onerror" THEN [resolved |-> FALSE, value |-> "none"]
    ELSE IF width > MAX_DIM \/ height > MAX_DIM
    THEN IF hasContext THEN [resolved |-> TRUE, value |-> "image/jpeg"]
         ELSE [resolved |-> TRUE, value |-> "base64"]
    ELSE [resolved |-> TRUE, value |-> "base64"]

(* compressImage: what the promise does when the Image element fires       *)
(* event; on load of an image larger than MAX_DIM it resolves with the     *)
(* JPEG of the scaled canvas when getContext('2d') gave a context, in      *)
(* every other case with the original data URL                             *)
compressImage(event, width, height, hasContext) ==
    IF event = "img.onerror" THEN [resolved |-> TRUE, value |-> "base64"]
    ELSE IF width > MAX_DIM \/ height > MAX_DIM
    THEN IF hasContext THEN [resolved |-> TRUE, value |-> "image/jpeg"]
         ELSE [resolved |-> TRUE, value |-> "base64"]
    ELSE [resolved |-> TRUE, value |-> "base64"]

(* the load or error event of the Image element of compressImage; when     *)
(* the promise resolves analyzeBlueprint goes on to await generateContent  *)
compressSettles ==
    /\ clickedRoom' = "none"
    /\ UNCHANGED voiceVars
    /\ pending \in {"img.onload", "img.onerror"}
    /\ \E width, height \in ImageSizes, hasContext \in BOOLEAN :
          compressImage(pending, width, height, hasContext).resolved
    /\ pending' = "analyze"
    /\ UNCHANGED <<step, imageUrl, analysisData, highlightedRoomId, errorMsg,
                   scene, memo, renderGen>>

(* analyzeBlueprint settles, its catch block without setStep('UPLOAD') *)
analyzeSettlesNoReturn(Responses) ==
    /\ clickedRoom' = "none"
    /\ UNCHANGED voiceVars
    /\ pending = "analyze"
    /\ pending' = "none"
    /\ \/ \E data \in Responses :
            /\ step' = "DASHBOARD"
            /\ Mount(data, highlightedRoomId)
            /\ UNCHANGED errorMsg
       \/ /\ errorMsg' = "Failed to analyze blueprint. Please try a clearer file."
          /\ UNCHANGED <<step, analysisData, scene, memo, renderGen>>
    /\ UNCHANGED <<imageUrl, highlightedRoomId>>

(* analyzeBlueprint settles: with a response, or with an error (the        *)
(* request failed, the response had no text, or its text did not parse)    *)
analyzeSettles(Responses) ==
    /\ clickedRoom' = "none"
    /\ UNCHANGED voiceVars
    /\ pending = "analyze"
    /\ pending' = "none"
    /\ \/ \E data \in Responses :
            /\ step' = "DASHBOARD"
            /\ Mount(data, highlightedRoomId)
            /\ UNCHANGED errorMsg
       \/ /\ errorMsg' = "Failed to analyze blueprint. Please try a clearer file."
          /\ step' = "UPLOAD"
          /\ UNCHANGED <<analysisData, scene, memo, renderGen>>
    /\ UNCHANGED <<imageUrl, highlightedRoomId>>

(* e.stopPropagation() without effect *)
StopPropagationNoEffect(hits) == hits

(* e.stopPropagation() in the handler of the nearest hit: the click is not *)
(* delivered to the objects behind it                                      *)
StopPropagation(hits) == <<hits[1]>>

(* The onClick of a room's floor slab or label in the 3D scene.  The ray   *)
(* of a click meets the slab of room i and, when j # i, the slab of room j *)
(* behind it; the handlers of the delivered hits run in that order within  *)
(* one event, each calling onClick(room.id) = setHighlightedRoomId, and    *)
(* the state takes the value of the last call.  clickedRoom is the id of   *)
(* the room that was clicked, the nearest hit.                             *)
roomClick ==
    /\ step = "DASHBOARD" /\ Alive
    /\ \E i, j \in 1..Len(scene.rooms) :
          /\ scene.rooms[i].built /\ scene.rooms[j].built
          /\ clickedRoom' = analysisData.rooms[i].id
          /\ LET delivered == StopPropagation(IF i = j THEN <<i>> ELSE <<i, j>>)
             IN  SetHighlighted(analysisData.rooms[delivered[Len(delivered)]].id)
    /\ UNCHANGED <<step, imageUrl, errorMsg, pending>>
    /\ UNCHANGED voiceVars

(* the onClick of a room overlay in Viewer2D *)
roomClick2D ==
    /\ step = "DASHBOARD" /\ Alive
    /\ \E i \in 1..Len(analysisData.rooms) :
          /\ Overlay2D(analysisData.rooms[i])
          /\ clickedRoom' = analysisData.rooms[i].id
          /\ SetHighlighted(analysisData.rooms[i].id)
    /\ UNCHANGED <<step, imageUrl, errorMsg, pending>>
    /\ UNCHANGED voiceVars

(* handleReset with setHighlightedRoomId(null) inside its                  *)
(* if (controlsRef.current) block                                          *)
handleResetNeedsControls ==
    /\ clickedRoom' = "none"
    /\ UNCHANGED voiceVars
    /\ step = "DASHBOARD" /\ Alive
    /\ \E controlsRef \in {"null", "OrbitControls"} :
          IF controlsRef = "null"
          THEN UNCHANGED <<highlightedRoomId, scene, memo, renderGen, analysisData>>
          ELSE SetHighlighted("null")
    /\ UNCHANGED <<step, imageUrl, errorMsg, pending>>

(* Viewer3D.handleReset, the Reset View button: setHighlightedRoomId(null) *)
(* first, then, when controlsRef.current is set, the reset of the camera   *)
(* and of the orbit target, which are not part of the state                *)
handleReset ==
    /\ clickedRoom' = "none"
    /\ UNCHANGED voiceVars
    /\ step = "DASHBOARD" /\ Alive
    /\ \E controlsRef \in {"null", "OrbitControls"} : SetHighlighted("null")
    /\ UNCHANGED <<step, imageUrl, errorMsg, pending>>

(* AnalysisPanel onHome *)
onHome ==
    /\ clickedRoom' = "none"
    /\ UNCHANGED voiceVars
    /\ step = "DASHBOARD" /\ Alive
    /\ analysisData' = NullData
    /\ highlightedRoomId' = "null"
    /\ imageUrl' = "null"
    /\ step' = "LANDING"
    /\ Unmount
    /\ UNCHANGED <<errorMsg, pending>>

(* AnalysisPanel onUpload without setHighlightedRoomId(null) *)
onUploadKeepsHighlight ==
    /\ clickedRoom' = "none"
    /\ UNCHANGED voiceVars
    /\ step = "DASHBOARD" /\ Alive
    /\ analysisData' = NullData
    /\ imageUrl' = "null"
    /\ step' = "UPLOAD"
    /\ Unmount
    /\ UNCHANGED <<highlightedRoomId, errorMsg, pending>>

(* AnalysisPanel onUpload *)
onUpload ==
    /\ clickedRoom' = "none"
    /\ UNCHANGED voiceVars
    /\ step = "DASHBOARD" /\ Alive
    /\ analysisData' = NullData
    /\ highlightedRoomId' = "null"
    /\ imageUrl' = "null"
    /\ step' = "UPLOAD"
    /\ Unmount
    /\ UNCHANGED <<errorMsg, pending>>

Next ==
    \/ onStart
    \/ backToHome
    \/ handleSampleLoad
    \/ sampleTimer
    \/ handleFileUpload
    \/ fileSettles
    \/ compressSettles
    \/ analyzeSettles(AppResponses)
    \/ roomClick
    \/ roomClick2D
    \/ handleReset
    \/ onHome
    \/ onUpload

Spec == Init /\ [][Next]_vars

(* A timer that is set fires, and a promise that is awaited settles and    *)
(* its continuation runs: weak fairness of sampleTimer, fileSettles,       *)
(* compressSettles and analyzeSettles.  sampleTimer is enabled exactly     *)
(* when pending = "sampleTimer" and is the only step that changes pending  *)
(* from that value, so WF_vars(sampleTimer), that is                       *)
(* []<>~ENABLED <<sampleTimer>>_vars \/ []<><<sampleTimer>>_vars, is       *)
(* []<>(pending # "sampleTimer"); likewise for analyzeSettles.             *)
FairSpec ==
    /\ Spec
    /\ []<>(pending # "sampleTimer")
    /\ WF_vars(fileSettles)
    /\ WF_vars(compressSettles)
    /\ []<>(pending # "analyze")

(* The reconstruction of one analysis response: the application waits in   *)
(* PROCESSING for analyzeBlueprint, which settles with any generated plan. *)
SceneInit ==
    /\ step = "PROCESSING"
    /\ imageUrl = "base64"
    /\ analysisData = NullData
    /\ highlightedRoomId = "null"
    /\ errorMsg = "null"
    /\ pending = "analyze"
    /\ scene = Unmounted
    /\ memo = <<>>
    /\ renderGen = 0
    /\ clickedRoom = "none"
    /\ VoiceInit

SceneNext == analyzeSettles(PlanInputs)

SceneSpec == SceneInit /\ [][SceneNext]_vars

----------------------------------------------------------------------------
(* The voice assistant of AnalysisPanel.  An AudioBufferSourceNode is      *)
(* "none" before it is created, "playing" after start(0), "ending" when    *)
(* its playback is over (the buffer ran out or stop() was called) and its  *)
(* 'ended' event is not dispatched yet, "ended" after its onended ran.     *)

(* source.stop(): playback ends and the 'ended' event is queued; on a      *)
(* source whose playback is over it has no effect                          *)
Stop(sources, n) ==
    IF sources[n] = "playing" THEN [sources EXCEPT ![n] = "ending"] ELSE sources

(* the voice button without disabled={isGeneratingVoice} *)
VoiceButtonAlwaysEnabled == TRUE

(* the voice button takes clicks: disabled={isGeneratingVoice} *)
VoiceButtonEnabled == ~isGeneratingVoice

(* handleSpeak, a click on the voice button: it stops the current source   *)
(* when isSpeaking, otherwise it runs up to await generateSpeech(script)   *)
handleSpeak ==
    /\ step = "DASHBOARD" /\ Alive
    /\ VoiceButtonEnabled
    /\ IF isSpeaking
       THEN /\ audioSources' = IF audioSourceRef # 0
                               THEN Stop(audioSources, audioSourceRef)
                               ELSE audioSources
            /\ audioSourceRef' = 0
            /\ isSpeaking' = FALSE
            /\ UNCHANGED <<isGeneratingVoice, speechRequests>>
       ELSE /\ speechRequests < MaxSources
            /\ isGeneratingVoice' = TRUE
            /\ speechRequests' = speechRequests + 1
            /\ UNCHANGED <<isSpeaking, audioSourceRef, audioSources>>
    /\ UNCHANGED appVars

(* handleSpeak after its awaits.  Either generateSpeech, ctx.resume() and  *)
(* decodeAudioData succeeded: a new source is created, stored in           *)
(* audioSourceRef and started, and setIsSpeaking(true) runs; or one of     *)
(* them threw and the catch block runs.  The finally block runs in both.   *)
speechSettles ==
    /\ speechRequests > 0
    /\ speechRequests' = speechRequests - 1
    /\ isGeneratingVoice' = FALSE
    /\ \/ \E n \in 1..MaxSources :
            /\ audioSources[n] = "none"
            /\ \A m \in 1..(n - 1) : audioSources[m] # "none"
            /\ audioSources' = [audioSources EXCEPT ![n] = "playing"]
            /\ audioSourceRef' = n
            /\ isSpeaking' = TRUE
       \/ UNCHANGED <<audioSources, audioSourceRef, isSpeaking>>
    /\ UNCHANGED appVars

(* the playback of source n reaches the end of its buffer *)
audioFinishes(n) ==
    /\ audioSources[n] = "playing"
    /\ audioSources' = [audioSources EXCEPT ![n] = "ending"]
    /\ UNCHANGED <<isSpeaking, isGeneratingVoice, audioSourceRef, speechRequests>>
    /\ UNCHANGED appVars

(* the 'ended' event of source n: source.onended = () =>                   *)
(* setIsSpeaking(false)                                                    *)
onended(n) ==
    /\ audioSources[n] = "ending"
    /\ audioSources' = [audioSources EXCEPT ![n] = "ended"]
    /\ isSpeaking' = FALSE
    /\ UNCHANGED <<isGeneratingVoice, audioSourceRef, speechRequests>>
    /\ UNCHANGED appVars

(* the dashboard is reached with the sample plan, then the voice button    *)
(* is used                                                                 *)
VoiceNext ==
    \/ onStart
    \/ handleSampleLoad
    \/ sampleTimer
    \/ handleSpeak
    \/ speechSettles
    \/ \E n \in 1..MaxSources : audioFinishes(n)
    \/ \E n \in 1..MaxSources : onended(n)

VoiceSpec == Init /\ [][VoiceNext]_vars

(* the promise of generateSpeech settles and the continuation of           *)
(* handleSpeak runs                                                        *)
VoiceFairSpec == VoiceSpec /\ WF_vars(speechSettles)

----------------------------------------------------------------------------
(* The quantities the properties are stated in, taken from the plan data   *)
(* by vector algebra rather than by the steps of the code                  *)

(* the world coordinate (v - 50) / 2 of a plan coordinate, 0 for a value   *)
(* that is not a number                                                    *)
World(v) == IF v.t = "num" THEN Q(v.n - 50 * v.d, 2 * v.d) ELSE Zero

WorldPt(p) == Vector3(World(p.x), World(p.y))

(* (e - s) . (p - s)  and  (e - s) x (p - s) *)
Dot(s, e, p) ==
    QAdd(QMul(QSub(e.x, s.x), QSub(p.x, s.x)), QMul(QSub(e.z, s.z), QSub(p.z, s.z)))

Cross(s, e, p) ==
    QSub(QMul(QSub(e.x, s.x), QSub(p.z, s.z)), QMul(QSub(e.z, s.z), QSub(p.x, s.x)))

LenSq(s, e) == Dot(s, e, e)

(* the squared distance from p to the nearest point of the segment s-e:    *)
(* an endpoint when the foot of the perpendicular falls outside it         *)
SegDistSq(s, e, p) ==
    IF QLe(Dot(s, e, p), Zero) THEN Dot(s, p, p)
    ELSE IF QLe(LenSq(s, e), Dot(s, e, p)) THEN Dot(e, p, p)
    ELSE QDiv(QSq(Cross(s, e, p)), LenSq(s, e))

(* The hosting rule: the nearest point of the segment is within 1.0 of p   *)
(* and its distance d from s satisfies 0.5 < d < L - 0.5.  When the foot   *)
(* falls outside the segment the nearest point is an endpoint, d is 0 or   *)
(* L, and the rule fails; otherwise d = u / L with u = (e-s).(p-s), the    *)
(* distance is |(e-s) x (p-s)| / L, and                                    *)
(*   d > 0.5 iff 4 u^2 > L^2,   L - d > 0.5 iff 4 (L^2 - u)^2 > L^2.       *)
Hosts(s, e, p) ==
    LET L2 == LenSq(s, e)
        u == Dot(s, e, p)
    IN  /\ QLt(Zero, u) /\ QLt(u, L2)
        /\ QLe(QSq(Cross(s, e, p)), L2)
        /\ QLt(L2, QMul(Q(4, 1), QSq(u)))
        /\ QLt(L2, QMul(Q(4, 1), QSq(QSub(L2, u))))

(* the square of the projected distance d of p along s-e *)
ProjSq(s, e, p) == QDiv(QSq(Dot(s, e, p)), LenSq(s, e))

WallS(i) == WorldPt(analysisData.walls[i].start)

WallE(i) == WorldPt(analysisData.walls[i].end)

DoorP(j) == WorldPt(analysisData.doors[j].position)

(* wall i of the scene has a hole cut for door j *)
HasHole(i, j) ==
    \E k \in DOMAIN scene.walls[i].holes : scene.walls[i].holes[k].door = j

IsRendered == scene.status = "rendered"

BuiltWalls == {i \in DOMAIN scene.walls : scene.walls[i].built}

BuiltDoors == {j \in DOMAIN scene.doors : scene.doors[j].built}

BuiltRooms == {r \in DOMAIN scene.rooms : scene.rooms[r].built}

----------------------------------------------------------------------------
(* C1: a built wall has a hole for a door exactly when the nearest point   *)
(* of the wall's segment is within 1.0 of the door's mapped position and   *)
(* lies strictly between 0.5 and L - 0.5 from the wall's start; a door     *)
(* farther than 1.0 from every built wall has no hole in any wall.         *)
C1_HoleIffOnSegment ==
    IsRendered =>
      /\ \A i \in BuiltWalls : \A j \in DOMAIN analysisData.doors :
           HasHole(i, j) <=> Hosts(WallS(i), WallE(i), DoorP(j))
      /\ \A j \in DOMAIN analysisData.doors :
           (\A i \in BuiltWalls : QLt(Q(1, 1), SegDistSq(WallS(i), WallE(i), DoorP(j))))
             => \A i \in DOMAIN scene.walls : ~HasHole(i, j)

(* a wall with a hole for one door and none for a second door that is      *)
(* within 1.0 of it but too near its start                                 *)
C1_Witness ==
    /\ IsRendered
    /\ \E i \in BuiltWalls : \E j, j2 \in DOMAIN analysisData.doors :
         /\ HasHole(i, j)
         /\ ~HasHole(i, j2)
         /\ QLe(SegDistSq(WallS(i), WallE(i), DoorP(j2)), Q(1, 1))

(* C2: a door accepted by a wall gets exactly one hole in it, centred at   *)
(* the projected distance d along the wall and 2.2 high, also when the     *)
(* door lies off the centreline.                                           *)
C2_HoleCentredAtProjection ==
    IsRendered =>
      \A i \in BuiltWalls : \A j \in DOMAIN analysisData.doors :
        Hosts(WallS(i), WallE(i), DoorP(j)) =>
          /\ Cardinality({k \in DOMAIN scene.walls[i].holes :
                            scene.walls[i].holes[k].door = j}) = 1
          /\ \A k \in DOMAIN scene.walls[i].holes :
               scene.walls[i].holes[k].door = j =>
                 /\ scene.walls[i].holes[k].distFromStartSq
                      = ProjSq(WallS(i), WallE(i), DoorP(j))
                 /\ scene.walls[i].holes[k].doorH = Q(22, 10)

(* C3: the sample fixture gives 6 wall solids, 3 door assemblies and 3     *)
(* room slabs, and door d1 cuts a hole in wall w5 and in no other wall.    *)
C3_SampleFixture ==
    (IsRendered /\ analysisData = SAMPLE_DATA) =>
      /\ Cardinality(BuiltWalls) = 6
      /\ Cardinality(BuiltDoors) = 3
      /\ Cardinality(BuiltRooms) = 3
      /\ analysisData.doors[1].id = "d1" /\ analysisData.walls[5].id = "w5"
      /\ \A i \in DOMAIN scene.walls : HasHole(i, 1) <=> i = 5

(* the dashboard showing the sample, with the hole of d1 in w5 *)
C3_Witness ==
    /\ step = "DASHBOARD"
    /\ IsRendered
    /\ analysisData = SAMPLE_DATA
    /\ HasHole(5, 1)

(* C4: building the scene never throws, whatever fields are missing. *)
C4_NeverThrows == scene.status # "threw"

(* C5: the world thickness of a wall is clamp(thickness / 5, 0.3, 1.0)     *)
(* when thickness is a number (0 gives 0.3, 10 gives 1.0) and 0.5 only     *)
(* when thickness is absent.                                               *)
C5_ThicknessClamp ==
    IsRendered =>
      \A i \in BuiltWalls :
        LET th == analysisData.walls[i].thickness
        IN  /\ th.t = "num" =>
                 scene.walls[i].thickness
                   = QMin(QMax(Q(th.n, 5 * th.d), Q(3, 10)), Q(1, 1))
            /\ th.t = "undefined" => scene.walls[i].thickness = Q(1, 2)

(* C6: a change of highlightedRoomId with the plan data unchanged          *)
(* recomputes no wall's hosted-door list or profile and rebuilds no door.  *)
C6_HighlightKeepsGeometry ==
    [][(/\ step = "DASHBOARD" /\ step' = "DASHBOARD"
        /\ IsRendered
        /\ analysisData' = analysisData
        /\ highlightedRoomId' # highlightedRoomId)
       => /\ \A i \in DOMAIN memo :
               /\ memo'[i].relevantDoorsId = memo[i].relevantDoorsId
               /\ memo'[i].shapeId = memo[i].shapeId
          /\ scene'.doors = scene.doors]_vars

(* C7: at most one wall has a hole for any one door. *)
C7_AtMostOneHostWall ==
    IsRendered =>
      \A j \in DOMAIN analysisData.doors :
        Cardinality({i \in DOMAIN scene.walls : HasHole(i, j)}) <= 1

(* a point with a coordinate that is missing, not a number, or NaN *)
Malformed(p) == ~p.def \/ p.x.t # "num" \/ p.y.t # "num"

(* C8: a wall with a malformed start or end, a door with a malformed       *)
(* position and a room with a malformed center produce no geometry.        *)
C8_MalformedIsAbsent ==
    IsRendered =>
      /\ \A i \in DOMAIN scene.walls :
           (Malformed(analysisData.walls[i].start) \/ Malformed(analysisData.walls[i].end))
             => ~scene.walls[i].built
      /\ \A j \in DOMAIN scene.doors :
           Malformed(analysisData.doors[j].position)
             => /\ ~scene.doors[j].built
                /\ \A i \in DOMAIN scene.walls : ~HasHole(i, j)
      /\ \A r \in DOMAIN scene.rooms :
           Malformed(analysisData.rooms[r].center) => ~scene.rooms[r].built

(* C9: every mapped coordinate of the scene is (v - 50) / 2 of its plan    *)
(* coordinate v when v is a number other than NaN, and 0 otherwise:        *)
(* the ends of a wall, the door positions its filter reads, the position   *)
(* of a door assembly.                                                     *)
C9_MapCoord ==
    IsRendered =>
      /\ \A i \in BuiltWalls :
           /\ scene.walls[i].start = WallS(i)
           /\ scene.walls[i].end = WallE(i)
           /\ \A j \in DOMAIN analysisData.doors : scene.walls[i].doorPos[j] = DoorP(j)
      /\ \A j \in BuiltDoors : scene.doors[j].position = DoorP(j)

(* a built wall from {x: NaN, y: 0} to {x: 100, y: 0}, mapped to (0, -25)  *)
(* and (25, -25), whose filter read a door with an undefined x as x = 0    *)
C9_Witness ==
    /\ IsRendered
    /\ \E i \in BuiltWalls :
         /\ analysisData.walls[i].start.x = NaN
         /\ analysisData.walls[i].start.y = Q(0, 1)
         /\ analysisData.walls[i].end.x = Q(100, 1)
         /\ scene.walls[i].start = Vector3(Q(0, 1), Q(-25, 1))
         /\ scene.walls[i].end = Vector3(Q(25, 1), Q(-25, 1))
         /\ \E j \in DOMAIN analysisData.doors :
              /\ analysisData.doors[j].position.x = Undefined
              /\ analysisData.doors[j].position.y = Q(60, 1)
              /\ scene.walls[i].doorPos[j] = Vector3(Q(0, 1), Q(5, 1))

(* the endpoints of wall i are numbers (NaN included) *)
NumericEnds(i) ==
    /\ analysisData.walls[i].start.def /\ analysisData.walls[i].end.def
    /\ \A v \in {analysisData.walls[i].start.x, analysisData.walls[i].start.y,
                 analysisData.walls[i].end.x, analysisData.walls[i].end.y} :
         v.t \in {"num", "NaN"}

(* C10: a wall with numeric endpoints whose start and end are less than    *)
(* 0.01 apart in squared distance is not built and has no holes.           *)
C10_DegenerateWallDropped ==
    IsRendered =>
      \A i \in DOMAIN scene.walls :
        (NumericEnds(i) /\ QLt(LenSq(WallS(i), WallE(i)), Q(1, 100)))
          => /\ ~scene.walls[i].built
             /\ scene.walls[i].holes = <<>>

(* a rendered plan with a door and a wall of distinct numeric endpoints    *)
(* less than 0.01 apart in squared distance, the door within 1.0 of it     *)
C10_Witness ==
    /\ IsRendered
    /\ \E i \in DOMAIN scene.walls : \E j \in DOMAIN analysisData.doors :
         /\ NumericEnds(i)
         /\ WallS(i) # WallE(i)
         /\ QLt(LenSq(WallS(i), WallE(i)), Q(1, 100))
         /\ QLe(Dot(WallS(i), DoorP(j), DoorP(j)), Q(1, 1))
         /\ ~scene.walls[i].built

(* the squared distance between the ends of wall i in plan units, for a    *)
(* wall whose four coordinates are numbers other than NaN                  *)
PlainEnds(i) ==
    /\ analysisData.walls[i].start.def /\ analysisData.walls[i].end.def
    /\ \A v \in {analysisData.walls[i].start.x, analysisData.walls[i].start.y,
                 analysisData.walls[i].end.x, analysisData.walls[i].end.y} :
         v.t = "num"

PlanLenSq(i) ==
    QAdd(QSq(QSub(analysisData.walls[i].end.x, analysisData.walls[i].start.x)),
         QSq(QSub(analysisData.walls[i].end.y, analysisData.walls[i].start.y)))

(* C11: the degeneracy threshold is 0.01 in plan units squared: a wall     *)
(* with numeric endpoints whose plan-space squared length is at least 0.01 *)
(* yields a wall solid.                                                    *)
C11_ThresholdInPlanUnits ==
    IsRendered =>
      \A i \in DOMAIN scene.walls :
        (PlainEnds(i) /\ QLe(Q(1, 100), PlanLenSq(i))) => scene.walls[i].built

(* a polygon point whose coordinates are numbers other than NaN *)
ValidPoint(p) == p.def /\ p.x.t = "num" /\ p.y.t = "num"

(* the indices of the valid points of room r, in their given order *)
ValidIdx(r) ==
    SetToSortedSeq({i \in DOMAIN analysisData.rooms[r].polygon :
                      ValidPoint(analysisData.rooms[r].polygon[i])})

(* the center of room r is present and both its coordinates are numbers    *)
(* (typeof 'number': NaN included)                                         *)
NumberCenter(r) ==
    /\ analysisData.rooms[r].center.def
    /\ analysisData.rooms[r].center.x.t \in {"num", "NaN"}
    /\ analysisData.rooms[r].center.y.t \in {"num", "NaN"}

(* C12: a room gives no slab and no label when fewer than 3 valid polygon  *)
(* points remain or its center is missing or has a non-number coordinate;  *)
(* otherwise it gives one slab, whose outline visits the valid points in   *)
(* their given order, and one label at the mapped center.                  *)
C12_RoomSlabAndLabel ==
    IsRendered =>
      /\ Len(scene.rooms) = Len(analysisData.rooms)
      /\ \A r \in DOMAIN scene.rooms :
           IF Len(ValidIdx(r)) < 3 \/ ~NumberCenter(r)
           THEN ~scene.rooms[r].built /\ scene.rooms[r].outline = <<>>
           ELSE /\ scene.rooms[r].built
                /\ Len(scene.rooms[r].outline) = Len(ValidIdx(r))
                /\ \A k \in DOMAIN scene.rooms[r].outline :
                     LET p == analysisData.rooms[r].polygon[ValidIdx(r)[k]]
                     IN  scene.rooms[r].outline[k]
                           = Vector3(World(p.x), QNeg(World(p.y)))
                /\ scene.rooms[r].label = WorldPt(analysisData.rooms[r].center)

(* a scene with a slab of three outline points kept from a polygon of six  *)
(* and a room with three valid points and no center, which is not built    *)
C12_Witness ==
    /\ IsRendered
    /\ \E r \in BuiltRooms :
         /\ Len(analysisData.rooms[r].polygon) = 6
         /\ Len(scene.rooms[r].outline) = 3
         /\ ValidIdx(r) = <<1, 3, 5>>
    /\ \E r \in DOMAIN scene.rooms :
         /\ Len(ValidIdx(r)) = 3
         /\ ~analysisData.rooms[r].center.def
         /\ ~scene.rooms[r].built

(* the position of door j is present and both its coordinates are numbers  *)
NumberPosition(j) ==
    /\ analysisData.doors[j].position.def
    /\ analysisData.doors[j].position.x.t \in {"num", "NaN"}
    /\ analysisData.doors[j].position.y.t \in {"num", "NaN"}

(* no built wall satisfies the hosting rule for door j *)
Freestanding(j) ==
    \A i \in BuiltWalls : ~Hosts(WallS(i), WallE(i), DoorP(j))

(* C13: in a rendered scene every door with a numeric position has one     *)
(* door assembly, at its mapped position, whether or not a wall hosts it;  *)
(* a door hosted by no wall has no hole in any wall.                       *)
C13_FreestandingDoor ==
    IsRendered =>
      /\ Len(scene.doors) = Len(analysisData.doors)
      /\ \A j \in DOMAIN analysisData.doors :
           /\ NumberPosition(j) =>
                /\ scene.doors[j].built
                /\ scene.doors[j].position = DoorP(j)
           /\ Freestanding(j) => \A i \in DOMAIN scene.walls : ~HasHole(i, j)

(* a scene with a built wall, a door assembly no wall hosts, and a second  *)
(* door assembly with a hole in the wall                                   *)
C13_Witness ==
    /\ IsRendered
    /\ \E i \in BuiltWalls : \E j, j2 \in BuiltDoors :
         /\ NumberPosition(j) /\ Freestanding(j)
         /\ \A w \in DOMAIN scene.walls : ~HasHole(w, j)
         /\ HasHole(i, j2)

(* C14: a click on a room's slab or label sets highlightedRoomId to that   *)
(* room's id whatever it was before; when it already was that id the       *)
(* state and the scene stay as they are; the click reaches no other room.  *)
C14_ClickReportsRoomId ==
    [][clickedRoom' # "none" =>
         /\ highlightedRoomId' = clickedRoom'
         /\ highlightedRoomId = clickedRoom' =>
              /\ scene' = scene
              /\ memo' = memo
              /\ analysisData' = analysisData]_vars

(* room r1 is highlighted after a click on it, in a scene with a second    *)
(* built room of another id                                                *)
C14_Witness ==
    /\ step = "DASHBOARD" /\ IsRendered
    /\ clickedRoom = "r1" /\ highlightedRoomId = "r1"
    /\ \E r \in BuiltRooms : analysisData.rooms[r].id # "r1"

(* the slabs rendered in the Highlighted state *)
HighlightedSlabs == {r \in BuiltRooms : scene.rooms[r].isHighlighted}

(* C15 as claimed: at most one slab is Highlighted and a slab is            *)
(* Highlighted exactly when highlightedRoomId equals its room's id, for    *)
(* any rooms list, duplicate and missing ids included.                     *)
C15_SingleHighlight ==
    IsRendered =>
      /\ Cardinality(HighlightedSlabs) <= 1
      /\ \A r \in BuiltRooms :
           scene.rooms[r].isHighlighted <=> highlightedRoomId = analysisData.rooms[r].id

(* C15 amended: a slab is Highlighted exactly when highlightedRoomId       *)
(* equals its room's id, for any rooms list; at most one slab is           *)
(* Highlighted when the built rooms have pairwise distinct ids.            *)
C15_HighlightById ==
    IsRendered =>
      /\ \A r \in BuiltRooms :
           scene.rooms[r].isHighlighted <=> highlightedRoomId = analysisData.rooms[r].id
      /\ (\A r, q \in BuiltRooms :
            r # q => analysisData.rooms[r].id # analysisData.rooms[q].id)
           => Cardinality(HighlightedSlabs) <= 1

(* one slab Highlighted next to a built slab that is not *)
C15_Witness ==
    /\ step = "DASHBOARD" /\ IsRendered
    /\ highlightedRoomId # "null"
    /\ Cardinality(HighlightedSlabs) = 1
    /\ Cardinality(BuiltRooms) >= 2
    /\ \A r, q \in BuiltRooms :
         r # q => analysisData.rooms[r].id # analysisData.rooms[q].id

(* sqrt(a) + q <= sqrt(b), for a, b >= 0 and q >= 0, decided exactly:      *)
(* 2q sqrt(a) <= b - a - q^2  iff  b - a - q^2 >= 0 and                    *)
(* 4 q^2 a <= (b - a - q^2)^2                                              *)
SqrtPlusLeSqrt(a, q, b) ==
    /\ QLe(Zero, QSub(QSub(b, a), QSq(q)))
    /\ QLe(QMul(Q(4, 1), QMul(QSq(q), a)), QSq(QSub(QSub(b, a), QSq(q))))

(* the hole h of a wall of squared length lengthSq lies in [0, length]:    *)
(* its centre c = sqrt(h.distFromStartSq) has c - doorW/2 >= 0 and         *)
(* c + doorW/2 <= length                                                   *)
HoleInsideProfile(h, lengthSq) ==
    /\ h.doorW.t = "num"
    /\ QLe(QSq(QDiv(h.doorW, Q(2, 1))), h.distFromStartSq)
    /\ SqrtPlusLeSqrt(h.distFromStartSq, QDiv(h.doorW, Q(2, 1)), lengthSq)
    /\ QLe(h.doorH, Q(3, 1))

(* C16: every hole of a wall lies inside the wall's profile                *)
(* [0, length] x [0, 3.0], whatever the door's width.                      *)
C16_CutoutInsideProfile ==
    IsRendered =>
      \A i \in BuiltWalls : \A k \in DOMAIN scene.walls[i].holes :
        HoleInsideProfile(scene.walls[i].holes[k], scene.walls[i].lengthSq)

(* the intervals [c - w/2, c + w/2] of the holes g and h, c the square     *)
(* root of distFromStartSq, have no interior point in common:              *)
(* |c_g - c_h| >= (w_g + w_h) / 2                                          *)
HolesDisjoint(g, h) ==
    LET q == QDiv(QAdd(g.doorW, h.doorW), Q(2, 1))
    IN  IF QLe(g.distFromStartSq, h.distFromStartSq)
        THEN SqrtPlusLeSqrt(g.distFromStartSq, q, h.distFromStartSq)
        ELSE SqrtPlusLeSqrt(h.distFromStartSq, q, g.distFromStartSq)

(* C17 as claimed: the holes of two distinct doors accepted by the same    *)
(* wall do not overlap along the wall.                                     *)
C17_NoOverlap ==
    IsRendered =>
      \A i \in BuiltWalls : \A k, l \in DOMAIN scene.walls[i].holes :
        k # l => HolesDisjoint(scene.walls[i].holes[k], scene.walls[i].holes[l])

(* the doors wall i hosts, in list order *)
HostedDoors(i) ==
    SetToSortedSeq({j \in DOMAIN analysisData.doors :
                      Hosts(WallS(i), WallE(i), DoorP(j))})

(* half of the width w when w is a number other than 0 and NaN, 3 when it  *)
(* is 0, NaN or absent                                                     *)
HalfWidthOr3(w) == IF w.t = "num" /\ w.n # 0 THEN Q(w.n, 2 * w.d) ELSE Q(3, 1)

(* C17 amended: every door a wall hosts gets its own hole in it, in list   *)
(* order and of the door's own width; no hole is merged with or rejected   *)
(* for another, so holes may overlap.                                      *)
C17_OneHolePerHostedDoor ==
    IsRendered =>
      \A i \in BuiltWalls :
        /\ Len(scene.walls[i].holes) = Len(HostedDoors(i))
        /\ \A k \in DOMAIN scene.walls[i].holes :
             /\ scene.walls[i].holes[k].door = HostedDoors(i)[k]
             /\ scene.walls[i].holes[k].doorW
                  = HalfWidthOr3(analysisData.doors[HostedDoors(i)[k]].width)

(* a wall with the holes of two doors that overlap along the wall *)
C17_Witness ==
    /\ IsRendered
    /\ \E i \in BuiltWalls : \E k, l \in DOMAIN scene.walls[i].holes :
         /\ k # l
         /\ ~HolesDisjoint(scene.walls[i].holes[k], scene.walls[i].holes[l])

(* (w ?? 6) * 0.5 : half of w when w is a number, 3 only when w is absent *)
HalfWidthOrDefault(w) ==
    IF w.t = "undefined" THEN Q(3, 1)
    ELSE IF w.t = "num" THEN Q(w.n, 2 * w.d)
    ELSE NaN

(* C18: the opening of a door assembly and the width of the door's holes   *)
(* are (width ?? 6) * 0.5, so 0 for a width of 0 and 3.0 only for an       *)
(* absent width; an absent rotation gives a rotation of 0.                 *)
C18_WidthDefaultOnlyWhenAbsent ==
    IsRendered =>
      /\ \A j \in BuiltDoors :
           /\ scene.doors[j].openingWidth
                = HalfWidthOrDefault(analysisData.doors[j].width)
           /\ analysisData.doors[j].rotation.t = "undefined"
                => scene.doors[j].rotationDeg = Zero
      /\ \A i \in BuiltWalls : \A k \in DOMAIN scene.walls[i].holes :
           scene.walls[i].holes[k].doorW
             = HalfWidthOrDefault(analysisData.doors[scene.walls[i].holes[k].door].width)

(* C19: the plan data shown on the dashboard is the plan that was          *)
(* supplied, field for field (no door has a distFromStart), and stays as   *)
(* it is through every later render and highlight change.                  *)
C19_PlanDataNotMutated ==
    [][step' = "DASHBOARD" =>
         IF step = "DASHBOARD"
         THEN analysisData' = analysisData
         ELSE analysisData' \in AppResponses \cup {SAMPLE_DATA}]_vars

(* the sample on the dashboard after a highlight change, door d1 hosted by *)
(* wall w5 and still without a distFromStart                               *)
C19_Witness ==
    /\ step = "DASHBOARD" /\ IsRendered
    /\ highlightedRoomId # "null"
    /\ analysisData = SAMPLE_DATA
    /\ HasHole(5, 1)
    /\ analysisData.doors[1].distFromStart = Undefined

(* a step in which the file conversion, the file read or the analysis call *)
(* settles                                                                 *)
SettleStep ==
    /\ pending \in {"convertPdf", "readFile", "analyze"}
    /\ pending' # pending

(* the settle step of a call that succeeded: the file was read and the     *)
(* image of compressImage is loading, or the analysis returned a plan and  *)
(* the dashboard shows it                                                  *)
SettledWell ==
    \/ /\ pending \in {"convertPdf", "readFile"}
       /\ pending' \in {"img.onload", "img.onerror"} /\ imageUrl' = "base64"
       /\ step' = "PROCESSING" /\ errorMsg' = "null"
    \/ /\ pending = "analyze"
       /\ step' = "DASHBOARD" /\ errorMsg' = "null"
       /\ analysisData' \in AppResponses

(* C20: when the analysis call or the reading or conversion of the file    *)
(* fails, errorMsg is set to a message, the application returns to UPLOAD, *)
(* analysisData is not set and no scene is built.                          *)
C20_FailureReported ==
    [][(SettleStep /\ ~SettledWell) =>
         /\ errorMsg' # "null"
         /\ step' = "UPLOAD"
         /\ pending' = "none"
         /\ analysisData' = analysisData /\ analysisData'.isNull
         /\ scene' = Unmounted]_vars

(* the upload screen showing the message of a failed analysis, no plan set *)
C20_Witness ==
    /\ step = "UPLOAD"
    /\ errorMsg = "Failed to analyze blueprint. Please try a clearer file."
    /\ imageUrl = "base64"
    /\ analysisData.isNull
    /\ scene = Unmounted

(* C21: the application starts at LANDING, every step into DASHBOARD is    *)
(* taken from PROCESSING and every step into PROCESSING from UPLOAD.       *)
C21_Navigation ==
    /\ step = "LANDING"
    /\ [][/\ (step' = "DASHBOARD" /\ step # "DASHBOARD") => step = "PROCESSING"
          /\ (step' = "PROCESSING" /\ step # "PROCESSING") => step = "UPLOAD"]_vars

(* the dashboard showing the plan an analysis returned *)
C21_Witness ==
    /\ step = "DASHBOARD"
    /\ imageUrl = "base64"
    /\ ~analysisData.isNull

(* C22: analysisData is not null in any state whose step is DASHBOARD,     *)
(* whatever value the analysis call returned.                              *)
C22_DashboardHasPlanData ==
    step = "DASHBOARD" => ~analysisData.isNull

(* C23: the room last clicked, in the 2D overlay or in the 3D scene, is    *)
(* the one highlightedRoomId names, and a room drawn by both viewers is    *)
(* highlighted in the 2D overlay exactly when its slab is Highlighted in   *)
(* the 3D scene.                                                           *)
C23_SharedHighlight ==
    /\ clickedRoom # "none" => highlightedRoomId = clickedRoom
    /\ IsRendered =>
         /\ Len(scene.overlays) = Len(scene.rooms)
         /\ \A r \in BuiltRooms :
              scene.overlays[r].drawn =>
                (scene.overlays[r].isHighlighted <=> scene.rooms[r].isHighlighted)

(* after a click, a room highlighted in both viewers next to a room drawn  *)
(* by both and highlighted in neither                                      *)
C23_Witness ==
    /\ IsRendered /\ clickedRoom # "none"
    /\ \E r, q \in BuiltRooms :
         /\ scene.overlays[r].drawn /\ scene.overlays[q].drawn
         /\ scene.overlays[r].isHighlighted /\ scene.rooms[r].isHighlighted
         /\ ~scene.overlays[q].isHighlighted /\ ~scene.rooms[q].isHighlighted

----------------------------------------------------------------------------
(* the sources that are playing *)
Playing == {n \in 1..MaxSources : audioSources[n] = "playing"}

(* C24: under every interleaving of clicks on the voice button, settlings  *)
(* of the speech generation and 'ended' callbacks, at most one audio       *)
(* source is playing, and isSpeaking is true whenever a source is playing. *)
C24_OneSourcePlaying ==
    /\ Cardinality(Playing) <= 1
    /\ Playing # {} => isSpeaking

----------------------------------------------------------------------------
(* C25: highlightedRoomId is null whenever the step is not DASHBOARD, and  *)
(* every step that enters the dashboard shows a plan in which no room is   *)
(* highlighted in either viewer, whatever room ids the plan has; every     *)
(* step that leaves the dashboard clears highlightedRoomId, analysisData   *)
(* and imageUrl.                                                           *)
C25_NoHighlightOutsideDashboard ==
    /\ [](step # "DASHBOARD" => highlightedRoomId = "null")
    /\ [][step = "DASHBOARD" /\ step' # "DASHBOARD" =>
            /\ highlightedRoomId' = "null"
            /\ analysisData' = NullData
            /\ imageUrl' = "null"]_vars
    /\ [][step # "DASHBOARD" /\ step' = "DASHBOARD" =>
            /\ highlightedRoomId' = "null"
            /\ \A i \in 1..Len(scene'.rooms) : ~scene'.rooms[i].isHighlighted
            /\ \A i \in 1..Len(scene'.overlays) : ~scene'.overlays[i].isHighlighted]_vars

(* the dashboard was left by New Upload after a render (renderGen is 0     *)
(* until the first render) and the upload screen holds no plan, no image   *)
(* and no highlighted room                                                 *)
C25_Witness ==
    /\ step = "UPLOAD"
    /\ renderGen = 1
    /\ pending = "none"
    /\ highlightedRoomId = "null"
    /\ analysisData = NullData
    /\ imageUrl = "null"

----------------------------------------------------------------------------
(* C26: the app is in PROCESSING only while work is pending, and every     *)
(* stay in PROCESSING ends in DASHBOARD or UPLOAD; the timer of a sample   *)
(* load leads to DASHBOARD with analysisData = SAMPLE_DATA and imageUrl    *)
(* null; the settling of a file upload leads on to the next stage, to      *)
(* DASHBOARD or to UPLOAD; compressImage resolves on load, on error and    *)
(* without a canvas context.                                               *)
C26_ProcessingEnds ==
    /\ [](step = "PROCESSING" <=> pending # "none")
    /\ (step = "PROCESSING") ~> (step \in {"DASHBOARD", "UPLOAD"})
    /\ [][pending = "sampleTimer" /\ pending' # pending =>
            /\ step' = "DASHBOARD"
            /\ analysisData' = SAMPLE_DATA
            /\ imageUrl' = "null"]_vars
    /\ [][pending = "analyze" /\ pending' # pending =>
            \/ step' = "DASHBOARD" /\ errorMsg' = errorMsg
            \/ step' = "UPLOAD" /\ errorMsg' # "null"]_vars
    /\ \A event \in {"img.onload", "img.onerror"} :
       \A width, height \in ImageSizes, hasContext \in BOOLEAN :
          compressImage(event, width, height, hasContext).resolved

(* an upload whose image failed to load in compressImage went on to the    *)
(* analysis call and reached the dashboard                                 *)
C26_Witness ==
    /\ step = "DASHBOARD"
    /\ imageUrl = "base64"
    /\ pending = "none"
    /\ IsRendered

----------------------------------------------------------------------------
(* C27: a handleSpeak that set isGeneratingVoice to true eventually sets   *)
(* it back to false; the step that does so either started exactly one new  *)
(* source and set isSpeaking, or (failure) started no source and left      *)
(* isSpeaking false and audioSourceRef alone; while isGeneratingVoice is   *)
(* true exactly one generation request is in flight and isSpeaking is      *)
(* false, and otherwise no request is in flight.                           *)
C27_GenerationEnds ==
    /\ isGeneratingVoice ~> ~isGeneratingVoice
    /\ [](isGeneratingVoice => speechRequests = 1 /\ ~isSpeaking)
    /\ [](~isGeneratingVoice => speechRequests = 0)
    /\ [][isGeneratingVoice /\ ~isGeneratingVoice' =>
            \/ /\ isSpeaking'
               /\ audioSourceRef' # 0
               /\ audioSources[audioSourceRef'] = "none"
               /\ audioSources' = [audioSources EXCEPT ![audioSourceRef'] = "playing"]
            \/ /\ ~isSpeaking'
               /\ audioSources' = audioSources
               /\ audioSourceRef' = audioSourceRef]_vars

(* a generation is in flight, started after the previous source was        *)
(* stopped and before its 'ended' event was dispatched                     *)
C27_Witness ==
    /\ isGeneratingVoice
    /\ speechRequests = 1
    /\ ~isSpeaking
    /\ audioSourceRef = 0
    /\ audioSources[1] = "ending"

----------------------------------------------------------------------------
(* C28: a step that stays in the dashboard and is not a room click is      *)
(* Reset View; after it highlightedRoomId is null, no slab of the 3D scene *)
(* and no overlay of the 2D view is highlighted, whichever room was        *)
(* highlighted and whether or not controlsRef.current was set, and the     *)
(* plan data is as before.                                                 *)
C28_ResetClearsSelection ==
    [][step = "DASHBOARD" /\ step' = "DASHBOARD" /\ clickedRoom' = "none" =>
          /\ highlightedRoomId' = "null"
          /\ \A i \in 1..Len(scene'.rooms) : ~scene'.rooms[i].isHighlighted
          /\ \A i \in 1..Len(scene'.overlays) : ~scene'.overlays[i].isHighlighted
          /\ analysisData' = analysisData]_vars

(* the dashboard with rooms shown in both viewers, no room highlighted,    *)
(* the last step not a room click, and an even number of renders so far:   *)
(* the mount, a room click and Reset View                                  *)
C28_Witness ==
    /\ step = "DASHBOARD"
    /\ IsRendered
    /\ clickedRoom = "none"
    /\ highlightedRoomId = "null"
    /\ renderGen = 0
    /\ \E i \in 1..Len(scene.rooms) : scene.rooms[i].built
    /\ \E i \in 1..Len(scene.overlays) : scene.overlays[i].drawn

----------------------------------------------------------------------------
(* C29: every hole of a wall belongs to a door that has an assembly, and   *)
(* the width of the hole equals the opening width of that assembly, so     *)
(* the jambs of the assembly flank the hole.                               *)
C29_CutoutMatchesOpening ==
    IsRendered =>
      \A i \in BuiltWalls : \A k \in DOMAIN scene.walls[i].holes :
         /\ scene.doors[scene.walls[i].holes[k].door].built
         /\ scene.doors[scene.walls[i].holes[k].door].openingWidth
              = scene.walls[i].holes[k].doorW

====
